---- MODULE Spec2Model ----
(***************************************************************************)
(* Pollutant degradation kinetics visualizer: the validation gate, the     *)
(* three kinetic model functions, the statistics calculator and the        *)
(* analysis run of app.py.                                                 *)
(*                                                                         *)
(* Numbers.  A Python/numpy float is modelled as a tagged pair:            *)
(*   <<"num", n>>   the finite value n / Scale (fixed point),              *)
(*   <<"inf", s>>   +infinity (s = 1) or -infinity (s = -1),               *)
(*   <<"nan", 0>>   NaN.                                                   *)
(* The arithmetic below follows IEEE 754 for the special values (x/0,      *)
(* inf - inf, log 0, comparisons with NaN); finite results are rounded     *)
(* toward zero on the fixed-point grid instead of to 53 bits, and the      *)
(* grid has no overflow to infinity.                                       *)
(***************************************************************************)
EXTENDS Integers, Sequences, FiniteSets, TLC

VARIABLES pc, model_type, c0, time_points, conc_points, errors,
          solver, popt, r2, rmse, predicted, stats, report, exc, calls

vars == <<pc, model_type, c0, time_points, conc_points, errors,
          solver, popt, r2, rmse, predicted, stats, report, exc, calls>>

\* Longest input sequence drawn for validate_data and calculate_statistics.
MaxLen == 3
\* Largest whole time value drawn for the model functions.
MaxT == 3

\* Fixed-point resolution: one unit is 1/Scale.
Scale == 10 * 10

(***************************************************************************)
(* Floats                                                                  *)
(***************************************************************************)
Num(n) == <<"num", n>>
NaN == <<"nan", 0>>
PosInf == <<"inf", 1>>
NegInf == <<"inf", -1>>
\* A name that holds no value yet (Python: unbound / None).
NoFloat == <<"none", 0>>
NoSeq == <<NoFloat>>
NoErrors == <<"None">>
NoStats == [rmse |-> NoFloat, r2 |-> NoFloat, mae |-> NoFloat, mse |-> NoFloat]
NoReport == [parameters |-> NoSeq, statistics |-> NoStats]

Zero == Num(0)
One == Num(Scale)

IsNaN(x) == x[1] = "nan"
IsNum(x) == x[1] = "num"
IsInf(x) == x[1] = "inf"
IsFinite(x) == IsNum(x)

\* Sign of a non-NaN float: -1, 0 or 1.
Sgn(x) == IF x[2] > 0 THEN 1 ELSE IF x[2] < 0 THEN -1 ELSE 0

\* a < b; False when either is NaN.
FLt(a, b) ==
    /\ ~IsNaN(a)
    /\ ~IsNaN(b)
    /\ CASE IsNum(a) /\ IsNum(b) -> a[2] < b[2]
         [] IsInf(a) /\ IsInf(b) -> a[2] < b[2]
         [] IsInf(a) -> a[2] < 0
         [] OTHER -> b[2] > 0

\* a >= b; False when either is NaN.
FGe(a, b) == ~IsNaN(a) /\ ~IsNaN(b) /\ ~FLt(a, b)

\* a <= b; False when either is NaN.
FLe(a, b) == FGe(b, a)

FNeg(a) ==
    CASE IsNaN(a) -> NaN
      [] IsInf(a) -> <<"inf", -a[2]>>
      [] OTHER -> Num(-a[2])

FAdd(a, b) ==
    CASE IsNaN(a) \/ IsNaN(b) -> NaN
      [] IsInf(a) /\ IsInf(b) -> IF a[2] = b[2] THEN a ELSE NaN
      [] IsInf(a) -> a
      [] IsInf(b) -> b
      [] OTHER -> Num(a[2] + b[2])

FSub(a, b) == FAdd(a, FNeg(b))

Abs(n) == IF n < 0 THEN -n ELSE n

\* floor(x * y / Scale) for x, y >= 0, splitting x so that no product overflows.
MulDiv(x, y) == (x \div Scale) * y + ((x % Scale) * y) \div Scale

FMul(a, b) ==
    CASE IsNaN(a) \/ IsNaN(b) -> NaN
      [] IsInf(a) \/ IsInf(b) ->
            IF Sgn(a) * Sgn(b) = 0 THEN NaN ELSE <<"inf", Sgn(a) * Sgn(b)>>
      [] OTHER ->
            LET x == Abs(a[2])
                y == Abs(b[2])
                m == IF x >= y THEN MulDiv(x, y) ELSE MulDiv(y, x)
            IN Num(Sgn(a) * Sgn(b) * m)

\* floor(x * Scale / y) for x >= 0, y > 0, splitting x so that no product overflows.
DivMul(x, y) == (x \div y) * Scale + ((x % y) * Scale) \div y

FDiv(a, b) ==
    CASE IsNaN(a) \/ IsNaN(b) -> NaN
      [] IsInf(a) /\ IsInf(b) -> NaN
      [] IsInf(a) -> <<"inf", a[2] * (IF Sgn(b) < 0 THEN -1 ELSE 1)>>
      [] IsInf(b) -> Zero
      [] b[2] = 0 -> IF a[2] = 0 THEN NaN ELSE <<"inf", Sgn(a)>>
      [] OTHER -> Num(Sgn(a) * Sgn(b) * DivMul(Abs(a[2]), Abs(b[2])))

FAbs(a) ==
    CASE IsNaN(a) -> NaN
      [] IsInf(a) -> PosInf
      [] OTHER -> Num(Abs(a[2]))

\* np.maximum / np.minimum: NaN propagates.
FMax(a, b) == IF IsNaN(a) \/ IsNaN(b) THEN NaN ELSE IF FLt(a, b) THEN b ELSE a
FMin(a, b) == IF IsNaN(a) \/ IsNaN(b) THEN NaN ELSE IF FLt(b, a) THEN b ELSE a

\* np.clip(x, lo, hi) == minimum(maximum(x, lo), hi)
Clip(x, lo, hi) == FMin(FMax(x, lo), hi)

\* Elementwise application and reductions over an array.
FSquare(x) == FMul(x, x)

SeqSub(s, u) == [i \in 1..Len(s) |-> FSub(s[i], u[i])]
SeqSquare(s) == [i \in 1..Len(s) |-> FSquare(s[i])]
SeqAbs(s) == [i \in 1..Len(s) |-> FAbs(s[i])]

RECURSIVE FSum(_)
FSum(s) == IF s = <<>> THEN Zero ELSE FAdd(FSum(SubSeq(s, 1, Len(s) - 1)), s[Len(s)])

\* np.mean: the sum divided by the count (0/0 = NaN for an empty array).
FMean(s) == FDiv(FSum(s), Num(Len(s) * Scale))

\* The largest r in lo..hi with r * r <= n, by bisection (lo * lo <= n).
RECURSIVE ISqrtIn(_, _, _)
ISqrtIn(lo, hi, n) ==
    IF lo >= hi THEN lo
    ELSE LET mid == (lo + hi + 1) \div 2
         IN IF mid * mid <= n THEN ISqrtIn(mid, hi, n) ELSE ISqrtIn(lo, mid - 1, n)

\* floor(sqrt(n)); the root of n < 2^30 lies below 2^15.
ISqrt(n) == ISqrtIn(0, IF n < 32768 THEN n ELSE 32768, n)

FSqrt(a) ==
    CASE IsNaN(a) -> NaN
      [] IsInf(a) -> IF a[2] > 0 THEN PosInf ELSE NaN
      [] a[2] < 0 -> NaN
      [] OTHER -> Num(ISqrt(a[2] * Scale))

(***************************************************************************)
(* validate_data                                                           *)
(***************************************************************************)
MsgLength == "Number of time points must match number of concentration points"
MsgAtLeast3 == "At least 3 data points are required for fitting"
MsgTimeNeg == "Time values must be non-negative"
MsgConcNeg == "Concentration values must be non-negative"
MsgIncreasing == "Time values must be strictly increasing"

MinPoints == 3

\* errors.append(msg) under a condition.
AppendIf(cond, msg) == IF cond THEN <<msg>> ELSE <<>>

\* len(time_points) < 3
TooFewPoints(t, c) == Len(t) < MinPoints

\* any(t1 >= t2 for t1, t2 in zip(time_points[:-1], time_points[1:]))
AnyNotIncreasing(t) == \E i \in 1..(Len(t) - 1) : FGe(t[i], t[i + 1])

validate_data(t, c) ==
    AppendIf(Len(t) # Len(c), MsgLength)
    \o AppendIf(TooFewPoints(t, c), MsgAtLeast3)
    \o AppendIf(\E i \in 1..Len(t) : FLt(t[i], Zero), MsgTimeNeg)
    \o AppendIf(\E i \in 1..Len(c) : FLt(c[i], Zero), MsgConcNeg)
    \o AppendIf(AnyNotIncreasing(t), MsgIncreasing)

(***************************************************************************)
(* Input domains                                                           *)
(***************************************************************************)
SeqsUpTo(S, n) == UNION {[1..m -> S] : m \in 0..n}

\* Values a parsed time or concentration entry can take (float(x) accepts "nan").
TimeVals == {NaN, Num(-Scale), Zero, One, Num(2 * Scale)}
ConcVals == {NaN, Num(-Scale), Zero, One}

(***************************************************************************)
(* Specification of validate_data on its own: every pair of sequences.     *)
(***************************************************************************)
Idle ==
    /\ model_type = "None"
    /\ c0 = NoFloat
    /\ errors = NoErrors
    /\ solver = "None"
    /\ popt = NoSeq
    /\ r2 = NoFloat
    /\ rmse = NoFloat
    /\ predicted = NoSeq
    /\ stats = NoStats
    /\ report = NoReport
    /\ exc = "None"
    /\ calls = <<>>

InitValidate ==
    /\ pc = "call"
    /\ time_points \in SeqsUpTo(TimeVals, MaxLen)
    /\ conc_points \in SeqsUpTo(ConcVals, MaxLen)
    /\ Idle

CallValidateData ==
    /\ pc = "call"
    /\ errors' = validate_data(time_points, conc_points)
    /\ pc' = "return"
    /\ UNCHANGED <<model_type, c0, time_points, conc_points, solver, popt, r2,
                   rmse, predicted, stats, report, exc, calls>>

NextValidate == CallValidateData

SpecValidate == InitValidate /\ [][NextValidate]_vars

(***************************************************************************)
(* Claims about validate_data (checked under SpecValidate)                 *)
(***************************************************************************)
\* The checks as the specification states them.
StrictlyIncreasing(t) == \A i \in 1..(Len(t) - 1) : FLt(t[i], t[i + 1])
NoNegative(s) == ~(\E i \in 1..Len(s) : FLt(s[i], Zero))
HasNaN(s) == \E i \in 1..Len(s) : IsNaN(s[i])

ExpectedErrors(t, c) ==
    AppendIf(Len(t) < MinPoints, MsgAtLeast3)
    \o AppendIf(~NoNegative(t), MsgTimeNeg)
    \o AppendIf(~NoNegative(c), MsgConcNeg)
    \o AppendIf(~StrictlyIncreasing(t), MsgIncreasing)

Contains(s, x) == \E i \in 1..Len(s) : s[i] = x

\* C1: for equal-length sequences validate_data returns exactly the messages of
\* the failing checks (at least 3 points, no negative time, no negative
\* concentration, strictly increasing time), once each and in that order, so
\* the list is empty exactly when all four checks pass.
C1_ExactMessages ==
    (errors # NoErrors /\ Len(time_points) = Len(conc_points))
        => errors = ExpectedErrors(time_points, conc_points)

\* The same statement restricted to time sequences without NaN: the part of C1
\* the code does satisfy.
ExactMessagesWithoutNaN ==
    (errors # NoErrors /\ Len(time_points) = Len(conc_points) /\ ~HasNaN(time_points))
        => errors = ExpectedErrors(time_points, conc_points)

\* C3: whenever either sequence has fewer than 3 points (also when the lengths
\* differ) the list contains the "at least 3 data points" message.
C3_FewerThanThreeReported ==
    (errors # NoErrors /\ (Len(time_points) < MinPoints \/ Len(conc_points) < MinPoints))
        => Contains(errors, MsgAtLeast3)

\* What the code does guarantee for short input: the list is not empty, and it
\* holds the "at least 3" message exactly when the time sequence is short.
ShortInputRejected ==
    errors # NoErrors =>
        /\ (Len(time_points) < MinPoints \/ Len(conc_points) < MinPoints) => errors # <<>>
        /\ Contains(errors, MsgAtLeast3) <=> Len(time_points) < MinPoints

(***************************************************************************)
(* np.exp and np.log on the fixed-point grid                               *)
(***************************************************************************)
\* exp(-i/10) for i = 0..60, rounded to the grid; below the grid it underflows to 0.
ExpTable ==
    <<100, 90, 82, 74, 67, 61, 55, 50, 45, 41, 37, 33, 30, 27, 25, 22, 20, 18,
      17, 15, 14, 12, 11, 10, 9, 8, 7, 7, 6, 6, 5, 5, 4, 4, 3, 3, 3, 2, 2, 2, 2,
      2, 1, 1, 1, 1, 1, 1, 1, 1, 1, 1, 1, 0, 0, 0, 0, 0, 0, 0, 0>>

TableStep == Scale \div 10

\* exp(-x / Scale) * Scale for an integer x >= 0: the table, interpolated linearly.
ExpNeg(x) ==
    IF x >= TableStep * (Len(ExpTable) - 1)
    THEN 0
    ELSE LET q == x \div TableStep
             r == x % TableStep
             a == ExpTable[q + 1]
             b == ExpTable[q + 2]
         IN a - ((a - b) * r) \div TableStep

FExp(a) ==
    CASE IsNaN(a) -> NaN
      [] IsInf(a) -> IF a[2] > 0 THEN PosInf ELSE Zero
      [] a[2] <= 0 -> Num(ExpNeg(-a[2]))
      [] OTHER -> IF ExpNeg(a[2]) = 0 THEN PosInf
                  ELSE Num((Scale * Scale) \div ExpNeg(a[2]))

\* The least x in lo..hi with ExpNeg(x) <= y (ExpNeg is non-increasing, ExpNeg(hi) <= y).
RECURSIVE LnSearch(_, _, _)
LnSearch(lo, hi, y) ==
    IF lo >= hi THEN hi
    ELSE LET mid == (lo + hi) \div 2
         IN IF ExpNeg(mid) <= y THEN LnSearch(lo, mid, y) ELSE LnSearch(mid + 1, hi, y)

\* ln(n / Scale) * Scale for an integer n > 0: ln(n) = 1 + ln(n / e) above 1, and
\* the inverse of ExpNeg at or below 1.
RECURSIVE Ln(_)
Ln(n) ==
    IF n > Scale THEN Scale + Ln((n * ExpNeg(Scale)) \div Scale)
    ELSE -LnSearch(0, TableStep * (Len(ExpTable) - 1), n)

FLog(a) ==
    CASE IsNaN(a) -> NaN
      [] IsInf(a) -> IF a[2] > 0 THEN PosInf ELSE NaN
      [] a[2] = 0 -> NegInf
      [] a[2] < 0 -> NaN
      [] OTHER -> Num(Ln(a[2]))

(***************************************************************************)
(* The kinetic model functions                                             *)
(***************************************************************************)
\* Upper limit of the rate constants: np.clip(k, 0, 1e3) and bounds = (0, 1e3).
KMax == 1000
\* np.clip(exp_term, 0, 1e100): 1e100 lies beyond the fixed-point range, the largest
\* magnitude of the grid stands for it.
ExpTermMax == 2000000000
\* np.clip(denominator, 1e-10, np.inf): 1e-10 lies below the resolution, one unit of
\* the grid stands for it.
DenomFloor == 1

ClipRate(k) == Clip(k, Zero, Num(KMax * Scale))

\* first_order_model at one time point.
FirstOrderAt(t, k, c) ==
    LET k_clipped == ClipRate(k)
        exp_term == Clip(FExp(FMul(FNeg(k_clipped), t)), Zero, Num(ExpTermMax))
    IN FMul(c, exp_term)

first_order_model(t, k, c) == [i \in 1..Len(t) |-> FirstOrderAt(t[i], k, c)]

\* A sign slip in the denominator: 1 - k*c0*t.
SecondOrderAtMut(t, k, c) ==
    LET k_clipped == ClipRate(k)
        denominator == Clip(FSub(One, FMul(FMul(k_clipped, c), t)), Num(DenomFloor), PosInf)
    IN FDiv(c, denominator)

\* second_order_model at one time point.
SecondOrderAt(t, k, c) ==
    LET k_clipped == ClipRate(k)
        denominator == Clip(FAdd(One, FMul(FMul(k_clipped, c), t)), Num(DenomFloor), PosInf)
    IN FDiv(c, denominator)

second_order_model(t, k, c) == [i \in 1..Len(t) |-> SecondOrderAt(t[i], k, c)]

\* langmuir_hinshelwood_model at one time point.
LangmuirHinshelwoodAt(t, k, K, c) ==
    LET k_clipped == ClipRate(k)
        K_clipped == ClipRate(K)
        e == FExp(FMul(FNeg(k_clipped), t))
        term1 == FMul(K_clipped, c)
        term2 == FSub(FLog(c), FLog(FMul(c, e)))
        numerator == FSub(FAdd(FMul(term1, term2), c), FMul(c, e))
        denominator == FAdd(One, FMul(FMul(K_clipped, c), e))
    IN FDiv(numerator, denominator)

langmuir_hinshelwood_model(t, k, K, c) ==
    [i \in 1..Len(t) |-> LangmuirHinshelwoodAt(t[i], k, K, c)]

ModelTypes == {"First Order", "Second Order", "Langmuir-Hinshelwood"}

(***************************************************************************)
(* Specification of the model functions on their own: each is evaluated on *)
(* a pair of time points.                                                  *)
(***************************************************************************)
\* Rate constants drawn: below, inside, on the edges of and above [0, 1000].
RateVals ==
    {Num(-Scale), Zero, Num(Scale \div 10), Num(Scale \div 2), One,
     Num(KMax * Scale), Num(2 * KMax * Scale)}
\* Initial concentrations: st.number_input(min_value=0.0).
C0Vals == {Zero, Num(Scale \div 2), One, Num(2 * Scale)}
\* Time points 0, 0.5, 1, ... MaxT.
TimeGrid == {Num(i * (Scale \div 2)) : i \in 0..(2 * MaxT)}

InitModel ==
    /\ pc = "call"
    /\ model_type \in ModelTypes
    /\ c0 \in C0Vals
    /\ time_points \in [1..2 -> TimeGrid]
    /\ conc_points = NoSeq
    /\ popt \in IF model_type = "Langmuir-Hinshelwood"
                THEN [1..2 -> RateVals] ELSE [1..1 -> RateVals]
    /\ errors = NoErrors
    /\ solver = "None"
    /\ r2 = NoFloat
    /\ rmse = NoFloat
    /\ predicted = NoSeq
    /\ stats = NoStats
    /\ report = NoReport
    /\ exc = "None"
    /\ calls = <<>>

EvalFirstOrder ==
    /\ pc = "call"
    /\ model_type = "First Order"
    /\ predicted' = first_order_model(time_points, popt[1], c0)
    /\ pc' = "return"
    /\ UNCHANGED <<model_type, c0, time_points, conc_points, errors, solver, popt,
                   r2, rmse, stats, report, exc, calls>>

EvalSecondOrder ==
    /\ pc = "call"
    /\ model_type = "Second Order"
    /\ predicted' = second_order_model(time_points, popt[1], c0)
    /\ pc' = "return"
    /\ UNCHANGED <<model_type, c0, time_points, conc_points, errors, solver, popt,
                   r2, rmse, stats, report, exc, calls>>

EvalLangmuirHinshelwood ==
    /\ pc = "call"
    /\ model_type = "Langmuir-Hinshelwood"
    /\ predicted' = langmuir_hinshelwood_model(time_points, popt[1], popt[2], c0)
    /\ pc' = "return"
    /\ UNCHANGED <<model_type, c0, time_points, conc_points, errors, solver, popt,
                   r2, rmse, stats, report, exc, calls>>

NextModel == EvalFirstOrder \/ EvalSecondOrder \/ EvalLangmuirHinshelwood

SpecModel == InitModel /\ [][NextModel]_vars

(***************************************************************************)
(* Claims about the model functions (checked under SpecModel)              *)
(***************************************************************************)
InRange(k) == FGe(k, Zero) /\ FLe(k, Num(KMax * Scale))
ParamsInRange == \A i \in 1..Len(popt) : InRange(popt[i])

\* C4: for each of the three models, any parameters in [0, 1000] and any
\* C0 > 0, the prediction at t = 0 equals C0.
C4_PredictionAtZeroIsC0 ==
    (predicted # NoSeq /\ ParamsInRange /\ FLt(Zero, c0))
        => \A i \in 1..Len(time_points) :
               time_points[i] = Zero => predicted[i] = c0

\* The part of C4 the code satisfies: the first- and second-order models.
PredictionAtZeroIsC0Simple ==
    (predicted # NoSeq /\ ParamsInRange /\ FLt(Zero, c0)
     /\ model_type # "Langmuir-Hinshelwood")
        => \A i \in 1..Len(time_points) :
               time_points[i] = Zero => predicted[i] = c0

\* C5: langmuir_hinshelwood_model never returns NaN at t = 0 for k, K in
\* [0, 1000] and C0 >= 0 (C0 = 0 included): it fails explicitly instead.
C5_NoNaNAtZero ==
    (predicted # NoSeq /\ model_type = "Langmuir-Hinshelwood" /\ ParamsInRange
     /\ FGe(c0, Zero))
        => \A i \in 1..Len(time_points) :
               time_points[i] = Zero => (exc # "None" \/ ~IsNaN(predicted[i]))

FirstOrderStrictDecrease ==
    /\ predicted # NoSeq
    /\ model_type = "First Order"
    /\ FLt(Zero, popt[1])
    /\ FLt(Zero, c0)
    /\ FLt(time_points[1], time_points[2])
    /\ FLt(predicted[2], predicted[1])

(***************************************************************************)
(* calculate_statistics                                                    *)
(***************************************************************************)
\* residuals = actual - predicted
Residuals(pred, actual) == SeqSub(actual, pred)

\* np.sum(residuals**2)
SsRes(pred, actual) == FSum(SeqSquare(Residuals(pred, actual)))

\* np.sum((actual - np.mean(actual))**2)
SsTot(actual) ==
    LET m == FMean(actual)
    IN FSum([i \in 1..Len(actual) |-> FSquare(FSub(actual[i], m))])

\* r2 = 1 - np.sum(residuals**2) / np.sum((actual - np.mean(actual))**2)
RSquared(pred, actual) == FSub(One, FDiv(SsRes(pred, actual), SsTot(actual)))

\* rmse = np.sqrt(np.mean(residuals**2))
Rmse(pred, actual) == FSqrt(FMean(SeqSquare(Residuals(pred, actual))))

\* The "1 -" of the R² formula left out.
calculate_statistics_mut(pred, actual) ==
    [rmse |-> Rmse(pred, actual),
     r2 |-> FDiv(SsRes(pred, actual), SsTot(actual)),
     mae |-> FMean(SeqAbs(Residuals(pred, actual))),
     mse |-> FMean(SeqSquare(Residuals(pred, actual)))]

calculate_statistics(pred, actual) ==
    [rmse |-> Rmse(pred, actual),
     r2 |-> RSquared(pred, actual),
     mae |-> FMean(SeqAbs(Residuals(pred, actual))),
     mse |-> FMean(SeqSquare(Residuals(pred, actual)))]

(***************************************************************************)
(* Specification of calculate_statistics on its own: every pair of         *)
(* equal-length sequences of finite values.                                *)
(***************************************************************************)
StatVals == {Zero, One, Num(2 * Scale)}

InitStats ==
    /\ pc = "call"
    /\ \E n \in 0..MaxLen :
           /\ predicted \in [1..n -> StatVals]
           /\ conc_points \in [1..n -> StatVals]
    /\ time_points = NoSeq
    /\ model_type = "None"
    /\ c0 = NoFloat
    /\ errors = NoErrors
    /\ solver = "None"
    /\ popt = NoSeq
    /\ r2 = NoFloat
    /\ rmse = NoFloat
    /\ stats = NoStats
    /\ report = NoReport
    /\ exc = "None"
    /\ calls = <<>>

CallCalculateStatistics ==
    /\ pc = "call"
    /\ stats' = calculate_statistics(predicted, conc_points)
    /\ pc' = "return"
    /\ UNCHANGED <<model_type, c0, time_points, conc_points, errors, solver, popt,
                   r2, rmse, predicted, report, exc, calls>>

NextStats == CallCalculateStatistics

SpecStats == InitStats /\ [][NextStats]_vars

(***************************************************************************)
(* Claims about calculate_statistics (checked under SpecStats)             *)
(***************************************************************************)
AllEqual(s) == \A i, j \in 1..Len(s) : s[i] = s[j]

\* C7: when all observed values are equal (zero variance) R² is an explicit
\* undefined value (NaN), whatever the predicted sequence is; never 0, never 1
\* and never another numeric value.
C7_ZeroVarianceIsNaN ==
    (stats # NoStats /\ Len(conc_points) >= 1 /\ AllEqual(conc_points))
        => IsNaN(stats.r2)

\* What the code yields at zero variance: NaN when the residuals are all zero,
\* minus infinity otherwise.
ZeroVarianceNaNOrMinusInf ==
    (stats # NoStats /\ Len(conc_points) >= 1 /\ AllEqual(conc_points))
        => stats.r2 = (IF predicted = conc_points THEN NaN ELSE NegInf)

\* C8 as stated: for every pair of equal-length sequences with predicted equal
\* to actual elementwise, R² equals 1.
C8_PerfectFitIsOne ==
    (stats # NoStats /\ predicted = conc_points) => stats.r2 = One

\* C8 as amended: with predicted equal to actual elementwise, R² equals 1
\* whenever the total sum of squares sum((actual - mean(actual))**2) is not
\* zero, and is NaN when it is zero (as for actual = [5, 5, 5] or no values).
C8_PerfectFitIsOneUnlessZeroVariance ==
    (stats # NoStats /\ predicted = conc_points)
        => /\ SsTot(conc_points) # Zero => stats.r2 = One
           /\ SsTot(conc_points) = Zero => IsNaN(stats.r2)

\* A perfect fit of values that are not all equal, reported with R² = 1.
C8_Witness ==
    /\ stats # NoStats
    /\ predicted = conc_points
    /\ ~AllEqual(conc_points)
    /\ stats.r2 = One

(***************************************************************************)
(* The fit functions.  scipy's curve_fit is outside the repository: a call *)
(* either returns some parameter vector inside the bounds, or raises       *)
(* RuntimeError (the solver did not converge), or raises ValueError for    *)
(* arrays it cannot use (NaN or inf in the data, mismatched or empty       *)
(* arrays, residuals that are not finite at the initial guess).            *)
(***************************************************************************)
\* Parameter values the solver may return, all inside bounds = (0, 1e3).
FitRates == {Zero, Num(Scale \div 10), One, Num(KMax * Scale)}

AllFinite(s) == \A i \in 1..Len(s) : IsFinite(s[i])

Usable(t, c) == Len(t) = Len(c) /\ Len(t) > 0 /\ AllFinite(t) /\ AllFinite(c)

\* The outcomes of curve_fit(f, time_points, conc_points, bounds=...) for a model
\* of n parameters whose residuals at the initial guess are finite or not.
CurveFit(t, c, n, finiteAtStart) ==
    IF ~Usable(t, c) \/ ~finiteAtStart
    THEN {[status |-> "ValueError", popt |-> NoSeq]}
    ELSE {[status |-> "RuntimeError", popt |-> NoSeq]}
         \cup {[status |-> "converged", popt |-> p] : p \in [1..n -> FitRates]}

NoFit == [exc |-> "None", popt |-> NoSeq, r2 |-> NoFloat, rmse |-> NoFloat]

\* Fit statistics whose RMSE lacks the square root.
FitStatisticsMut(pred, c) ==
    LET residuals == SeqSub(c, pred)
        squares == SeqSquare(residuals)
        m == FMean(c)
    IN [rmse |-> FMean(squares),
        r2 |-> FSub(One, FDiv(FSum(squares),
                              FSum([i \in 1..Len(c) |-> FSquare(FSub(c[i], m))])))]

\* The statistics every fit function computes from its own prediction.
FitStatistics(pred, c) ==
    LET residuals == SeqSub(c, pred)
        squares == SeqSquare(residuals)
        m == FMean(c)
    IN [rmse |-> FSqrt(FMean(squares)),
        r2 |-> FSub(One, FDiv(FSum(squares),
                              FSum([i \in 1..Len(c) |-> FSquare(FSub(c[i], m))])))]

\* A fit that swallows the solver's failure and falls back to k = 0.
fit_first_order_mut(t, c, c0v, out) ==
    LET k == IF out.status = "converged" THEN out.popt[1] ELSE Zero
        st == FitStatistics(first_order_model(t, k, c0v), c)
    IN [exc |-> "None", popt |-> <<k>>, r2 |-> st.r2, rmse |-> st.rmse]

\* fit_first_order, given the outcome `out` of its curve_fit call: an exception
\* of curve_fit propagates, otherwise (k, r2, rmse) is returned.
fit_first_order(t, c, c0v, out) ==
    IF out.status # "converged"
    THEN [NoFit EXCEPT !.exc = out.status]
    ELSE LET k == out.popt[1]
             st == FitStatistics(first_order_model(t, k, c0v), c)
         IN [exc |-> "None", popt |-> <<k>>, r2 |-> st.r2, rmse |-> st.rmse]

fit_second_order(t, c, c0v, out) ==
    IF out.status # "converged"
    THEN [NoFit EXCEPT !.exc = out.status]
    ELSE LET k == out.popt[1]
             st == FitStatistics(second_order_model(t, k, c0v), c)
         IN [exc |-> "None", popt |-> <<k>>, r2 |-> st.r2, rmse |-> st.rmse]

\* p0 = [0.1, 0.1]
LangmuirP0 == <<Num(Scale \div 10), Num(Scale \div 10)>>

fit_langmuir_hinshelwood(t, c, c0v, out) ==
    IF out.status # "converged"
    THEN [NoFit EXCEPT !.exc = out.status]
    ELSE LET k == out.popt[1]
             K == out.popt[2]
             st == FitStatistics(langmuir_hinshelwood_model(t, k, K, c0v), c)
         IN [exc |-> "None", popt |-> <<k, K>>, r2 |-> st.r2, rmse |-> st.rmse]

(***************************************************************************)
(* generate_report                                                         *)
(***************************************************************************)
\* Digits after the decimal point in f"{value:.4f}".
Decimals == 4

RECURSIVE Pow10(_)
Pow10(n) == IF n = 0 THEN 1 ELSE 10 * Pow10(n - 1)

\* f"{value:.4f}": the text <<sign, whole part, fractional digits>> of a finite
\* value; nan and inf print as "nan", "inf" and "-inf".
Format4(x) ==
    CASE IsNaN(x) -> <<"nan", 0, 0>>
      [] IsInf(x) -> <<IF x[2] > 0 THEN "inf" ELSE "-inf", 0, 0>>
      [] OTHER ->
           LET a == IF x[2] < 0 THEN -x[2] ELSE x[2]
           IN <<IF x[2] < 0 THEN "-" ELSE "", a \div Scale,
                (a % Scale) * (Pow10(Decimals) \div Scale)>>

generate_report(results) ==
    [parameters |-> [i \in 1..Len(results.parameters) |-> Format4(results.parameters[i])],
     statistics |-> [rmse |-> Format4(results.statistics.rmse),
                     r2 |-> Format4(results.statistics.r2),
                     mae |-> Format4(results.statistics.mae),
                     mse |-> Format4(results.statistics.mse)]]

(***************************************************************************)
(* The analysis run of app.py                                              *)
(***************************************************************************)
\* Entries typed or uploaded in the application: sequences one entry short of
\* MaxLen and of MaxLen entries; a negative concentration only as the last entry.
AppTimeVals == {NaN, Zero, One, Num(2 * Scale), Num(3 * Scale)}
AppConcVals == {Num(-Scale), One, Num(2 * Scale)}
AppC0Vals == {Zero, Num(2 * Scale)}
AppSeqs(S) == [1..(MaxLen - 1) -> S] \cup [1..MaxLen -> S]
AppTimes == AppSeqs(AppTimeVals)
AppConcs == {s \in AppSeqs(AppConcVals) : \A i \in 1..(Len(s) - 1) : FGe(s[i], Zero)}

\* Python truthiness of the list: `if errors:`.
ErrorsTruthyMut(e) == FALSE

ErrorsTruthy(e) == e # <<>>

Call(fn, a, b) == [fn |-> fn, args |-> <<a, b>>]

FreshRun ==
    /\ errors = NoErrors
    /\ solver = "None"
    /\ popt = NoSeq
    /\ r2 = NoFloat
    /\ rmse = NoFloat
    /\ predicted = NoSeq
    /\ stats = NoStats
    /\ report = NoReport
    /\ exc = "None"
    /\ calls = <<>>

Init ==
    /\ pc = "start"
    /\ model_type \in ModelTypes
    /\ c0 \in AppC0Vals
    /\ \/ time_points \in AppTimes /\ conc_points \in AppConcs
       \/ time_points = NoSeq /\ conc_points = NoSeq
    /\ FreshRun

\* No data yet (no file uploaded, or parsing failed): nothing is processed.
NoData ==
    /\ pc = "start"
    /\ (time_points = NoSeq \/ conc_points = NoSeq)
    /\ pc' = "done"
    /\ UNCHANGED <<model_type, c0, time_points, conc_points, errors, solver, popt,
                   r2, rmse, predicted, stats, report, exc, calls>>

\* errors = validate_data(time_points, conc_points)
Validate ==
    /\ pc = "start"
    /\ time_points # NoSeq
    /\ conc_points # NoSeq
    /\ errors' = validate_data(time_points, conc_points)
    /\ calls' = Append(calls, Call("validate_data", time_points, conc_points))
    /\ pc' = "validated"
    /\ UNCHANGED <<model_type, c0, time_points, conc_points, solver, popt, r2,
                   rmse, predicted, stats, report, exc>>

\* if errors: st.error(error) for each; the run ends.
ShowErrors ==
    /\ pc = "validated"
    /\ ErrorsTruthy(errors)
    /\ pc' = "done"
    /\ UNCHANGED <<model_type, c0, time_points, conc_points, errors, solver, popt,
                   r2, rmse, predicted, stats, report, exc, calls>>

\* The fit returned `res` after curve_fit ended as `out`: either the exception
\* ends the run, or the parameters are kept and the prediction `pred` is
\* re-evaluated from them.
FitBranch(fitName, modelName, out, res, pred) ==
    /\ solver' = out.status
    /\ exc' = res.exc
    /\ popt' = res.popt
    /\ r2' = res.r2
    /\ rmse' = res.rmse
    /\ IF res.exc # "None"
       THEN /\ predicted' = predicted
            /\ calls' = Append(calls, Call(fitName, time_points, conc_points))
            /\ pc' = "crashed"
       ELSE /\ predicted' = pred
            /\ calls' = calls \o <<Call(fitName, time_points, conc_points),
                                   Call(modelName, time_points, res.popt)>>
            /\ pc' = "stats"
    /\ UNCHANGED <<model_type, c0, time_points, conc_points, errors, stats, report>>

FitFirstOrder ==
    /\ pc = "validated"
    /\ ~ErrorsTruthy(errors)
    /\ model_type = "First Order"
    /\ \E out \in CurveFit(time_points, conc_points, 1, TRUE) :
          LET res == fit_first_order(time_points, conc_points, c0, out)
          IN FitBranch("fit_first_order", "first_order_model", out, res,
                       first_order_model(time_points, res.popt[1], c0))

FitSecondOrder ==
    /\ pc = "validated"
    /\ ~ErrorsTruthy(errors)
    /\ model_type = "Second Order"
    /\ \E out \in CurveFit(time_points, conc_points, 1, TRUE) :
          LET res == fit_second_order(time_points, conc_points, c0, out)
          IN FitBranch("fit_second_order", "second_order_model", out, res,
                       second_order_model(time_points, res.popt[1], c0))

FitLangmuirHinshelwood ==
    /\ pc = "validated"
    /\ ~ErrorsTruthy(errors)
    /\ model_type = "Langmuir-Hinshelwood"
    /\ \E out \in CurveFit(time_points, conc_points, 2,
                           ~Usable(time_points, conc_points)
                           \/ AllFinite(langmuir_hinshelwood_model(
                                  time_points, LangmuirP0[1], LangmuirP0[2], c0))) :
          LET res == fit_langmuir_hinshelwood(time_points, conc_points, c0, out)
          IN FitBranch("fit_langmuir_hinshelwood", "langmuir_hinshelwood_model", out, res,
                       langmuir_hinshelwood_model(time_points, res.popt[1], res.popt[2], c0))

\* stats = calculate_statistics(predicted, conc_points)
CalculateStatistics ==
    /\ pc = "stats"
    /\ stats' = calculate_statistics(predicted, conc_points)
    /\ calls' = Append(calls, Call("calculate_statistics", predicted, conc_points))
    /\ pc' = "render"
    /\ UNCHANGED <<model_type, c0, time_points, conc_points, errors, solver, popt,
                   r2, rmse, predicted, report, exc>>

\* Plots, metrics and the report.
Render ==
    /\ pc = "render"
    /\ report' = generate_report([parameters |-> popt, statistics |-> stats])
    /\ calls' = Append(calls, Call("generate_report", popt, predicted))
    /\ pc' = "done"
    /\ UNCHANGED <<model_type, c0, time_points, conc_points, errors, solver, popt,
                   r2, rmse, predicted, stats, exc>>

\* A sidebar widget is changed: Streamlit runs the script again from the top,
\* with the data entries as they are.
Rerun ==
    /\ pc \in {"done", "crashed"}
    /\ pc' = "start"
    /\ model_type' \in ModelTypes
    /\ c0' \in AppC0Vals
    /\ errors' = NoErrors
    /\ solver' = "None"
    /\ popt' = NoSeq
    /\ r2' = NoFloat
    /\ rmse' = NoFloat
    /\ predicted' = NoSeq
    /\ stats' = NoStats
    /\ report' = NoReport
    /\ exc' = "None"
    /\ calls' = <<>>
    /\ UNCHANGED <<time_points, conc_points>>

Next ==
    \/ NoData
    \/ Validate
    \/ ShowErrors
    \/ FitFirstOrder
    \/ FitSecondOrder
    \/ FitLangmuirHinshelwood
    \/ CalculateStatistics
    \/ Render
    \/ Rerun

Spec == Init /\ [][Next]_vars

(***************************************************************************)
(* Claims about the analysis run (checked under Spec)                      *)
(***************************************************************************)
FitNames == {"fit_first_order", "fit_second_order", "fit_langmuir_hinshelwood"}
GatedNames == FitNames \cup {"calculate_statistics"}

\* C2: no fit function and no calculate_statistics is invoked in a run whose
\* validate_data returned a non-empty list; every such call is preceded by a
\* validate_data call that returned the empty list, and a fit is called on the
\* very arrays that were validated.
C2_FitOnlyAfterCleanValidation ==
    \A i \in 1..Len(calls) :
        calls[i].fn \in GatedNames =>
            /\ errors = <<>>
            /\ \E j \in 1..(i - 1) :
                   /\ calls[j].fn = "validate_data"
                   /\ validate_data(calls[j].args[1], calls[j].args[2]) = <<>>
                   /\ calls[i].fn \in FitNames => calls[j].args = calls[i].args

\* A run that validated cleanly, fitted, computed the statistics and ended.
C2_Witness ==
    /\ pc = "done"
    /\ errors = <<>>
    /\ \E i \in 1..Len(calls) : calls[i].fn \in FitNames
    /\ \E i \in 1..Len(calls) : calls[i].fn = "calculate_statistics"

\* A run that ended at the validation gate with errors and no fit.
RejectedRun ==
    /\ pc = "done"
    /\ errors # NoErrors
    /\ errors # <<>>
    /\ Len(calls) = 1

\* C6: when the solver fails to converge inside a fit function, the failure
\* reaches the caller as an error of its own (RuntimeError) and nothing partial
\* exists: no parameter, R² or RMSE is returned, the fit is not tried again,
\* and the run computes no prediction, no statistics and no report.
C6_SolverFailurePropagates ==
    solver = "RuntimeError" =>
        /\ exc = "RuntimeError"
        /\ pc = "crashed"
        /\ errors = <<>>
        /\ popt = NoSeq
        /\ r2 = NoFloat
        /\ rmse = NoFloat
        /\ predicted = NoSeq
        /\ stats = NoStats
        /\ report = NoReport
        /\ Cardinality({i \in 1..Len(calls) : calls[i].fn \in FitNames}) = 1
        /\ calls[Len(calls)].fn \in FitNames

\* The solver failed to converge in a first-order fit and the run stopped.
C6_Witness ==
    /\ solver = "RuntimeError"
    /\ pc = "crashed"
    /\ model_type = "First Order"

\* st.metric("R\u00b2", f"{r2:.4f}") and st.metric("RMSE", f"{rmse:.4f} mg/L"): the
\* values the fit function returned, as displayed.
Metrics == [r2 |-> Format4(r2), rmse |-> Format4(rmse)]

\* The selected model evaluated at time t with the fitted parameters.
SelectedModelAt(t) ==
    CASE model_type = "First Order" -> FirstOrderAt(t, popt[1], c0)
      [] model_type = "Second Order" -> SecondOrderAt(t, popt[1], c0)
      [] OTHER -> LangmuirHinshelwoodAt(t, popt[1], popt[2], c0)

\* A run that passed validation, fitted and computed its statistics.
SuccessfulRun ==
    /\ pc \in {"render", "done"}
    /\ exc = "None"
    /\ stats # NoStats

\* C11: in every successful analysis run the R\u00b2 and RMSE returned by the fit
\* function are the same floats (an undefined value matching an undefined one)
\* as the r2 and rmse of calculate_statistics for the prediction re-evaluated
\* from the fitted parameters at the original time points, so the displayed
\* metrics and the report's statistics read the same; the prediction has one
\* entry per time point, in the order of the time points.
C11_FitAndReportStatisticsAgree ==
    SuccessfulRun =>
        /\ r2 = stats.r2
        /\ rmse = stats.rmse
        /\ Len(predicted) = Len(time_points)
        /\ \A i \in 1..Len(time_points) : predicted[i] = SelectedModelAt(time_points[i])
        /\ stats = calculate_statistics(predicted, conc_points)
        /\ report # NoReport =>
               /\ Metrics.r2 = report.statistics.r2
               /\ Metrics.rmse = report.statistics.rmse

\* A finished run with an imperfect fit: finite R\u00b2 below one and a positive
\* RMSE, shown as metrics and written in the report.
C11_Witness ==
    /\ pc = "done"
    /\ report # NoReport
    /\ Len(time_points) = MaxLen
    /\ IsNum(r2)
    /\ r2 # One
    /\ IsNum(rmse)
    /\ rmse # Zero
    /\ r2 = stats.r2
    /\ rmse = stats.rmse
    /\ Metrics.rmse = report.statistics.rmse

\* A finished run whose R\u00b2 is undefined on both sides.
UndefinedR2Run ==
    /\ pc = "done"
    /\ report # NoReport
    /\ IsNaN(r2)
    /\ IsNaN(stats.r2)

====
